---- MODULE Spec2Model ----
(***************************************************************************)
(* MultiThreader::SingleMethodExecute of                                   *)
(* Modules/Core/Common/src/itkMultiThreader.cxx as a state machine.        *)
(*                                                                         *)
(* The dispatching thread walks through SingleMethodExecute one loop       *)
(* iteration at a time (pc, thread_loop); every thread started by          *)
(* SpawnDispatchSingleMethodThread is a separate process that runs         *)
(* SingleMethodProxy on its slot, concurrently with the dispatcher.        *)
(* The platform backend (SpawnDispatchSingleMethodThread,                  *)
(* SpawnWaitForSingleMethodThread), SingleMethodProxy and the global       *)
(* thread-count policy live in files that are not part of the excerpt;     *)
(* they are modelled from the written specification.                       *)
(***************************************************************************)
EXTENDS Integers, Sequences, FiniteSets, TLC

\* ------------------------------------------------------------------ bounds
\* Size of m_ThreadInfoArray used by the model (ITK_MAX_THREADS is larger).
MaxThreads == 3
\* Number of SingleMethodExecute calls followed.
MaxRounds == 2
\* Number of SingleMethodExecute calls followed when calls of SetMultipleMethod
\* are interleaved with them.
MultipleRounds == 1
\* Number of SingleMethodExecute calls followed under fair scheduling.
FairRounds == 1

ITK_MAX_THREADS == MaxThreads

\* ------------------------------------------------------------- value sets
NULL == "nullptr"
Functions == {"f1"}
UserDatas == {"d1"}

Slots == 0 .. (ITK_MAX_THREADS - 1)
Spawnable == 1 .. (ITK_MAX_THREADS - 1)
ThreadCounts == 1 .. ITK_MAX_THREADS

\* What one invocation of the user function can do: return, throw
\* ProcessAborted, throw a std::exception carrying a message, or throw
\* something that is not a std::exception.
FunctionOutcomes == {"return", "ProcessAborted", "std_exception", "unknown_exception"}

\* How a backend call that throws can throw (catch(std::exception&) or catch(...)).
ThrowKinds == {"std_exception", "unknown_exception"}

\* The empty std::string.
EmptyString == <<>>

\* No exception leaves the call.
NoException == [text |-> "", details |-> EmptyString]

\* e.what() of the failure raised by the user function in slot i.
UserMessage(i) == <<"boom", i>>
\* e.what() of a thread-creation failure for slot i / of a join failure.
SpawnMessage(i) == <<"Unable to create a thread", i>>
WaitMessage(i) == <<"Unable to join thread", i>>

\* The zero process id written by the initialisation loop.
ZeroHandle == 0
\* The handle the backend returns for the thread of slot i in round r: not
\* zero, and different from every handle of another round or slot.
NewHandle(r, i) == r * ITK_MAX_THREADS + i

Min(a, b) == IF a < b THEN a ELSE b

VARIABLES
  \* ---- MultiThreader members
  m_SingleMethod,       \* registered function or NULL
  m_SingleData,         \* registered user data or NULL
  m_NumberOfThreads,    \* requested / clamped thread count
  m_ThreadInfoArray,    \* slot -> ThreadInfoStruct
  \* ---- process-wide policy
  globalMaximumNumberOfThreads,
  \* ---- locals of the SingleMethodExecute call in progress
  pc,                   \* position of the dispatching thread
  thread_loop,
  process_id,           \* index -> handle
  exceptionOccurred,
  exceptionDetails,
  \* ---- the backend's threads
  threadState,          \* index -> "none" | "running" | "terminated"
  \* ---- what the caller of SingleMethodExecute sees
  result,               \* how the last call ended
  raised,               \* description carried by the exception it raised
  \* ---- history of the current round (observation only)
  round,                \* number of calls begun
  entryThreads,         \* m_NumberOfThreads when the call was entered
  entryCeiling,         \* the ceiling read at entry
  spawnLog,             \* indices passed to Spawn, in order
  spawnFailed,          \* the index whose spawn threw, or 0
  spawnThrow,           \* how it threw, or "none"
  waitLog,              \* <<index, handle>> passed to Wait, in order
  waitThrow,            \* index -> how its wait threw ("swallowed": in the abort handler), or "none"
  invoked,              \* slot -> outcome of the user function this round, or "not_run"
  calls,                \* slot -> number of invocations of the user function this round
  requested,            \* the thread count the caller asked for before any round
  entryResidue,         \* at entry, an earlier call had left a failure behind
  \* ---- the storage of SetMultipleMethod
  m_MultipleMethod,     \* index -> function or NULL
  m_MultipleData,       \* index -> user data or NULL
  multipleRaised        \* the last SetMultipleMethod call raised its error

vars == << m_SingleMethod, m_SingleData, m_NumberOfThreads, m_ThreadInfoArray,
           globalMaximumNumberOfThreads, pc, thread_loop, process_id,
           exceptionOccurred, exceptionDetails, threadState, result, raised,
           round, entryThreads, entryCeiling, spawnLog, spawnFailed, spawnThrow,
           waitLog, waitThrow, invoked, calls, requested, entryResidue,
           m_MultipleMethod, m_MultipleData, multipleRaised >>

multiple == << m_MultipleMethod, m_MultipleData, multipleRaised >>
members == << m_SingleMethod, m_SingleData, m_NumberOfThreads, m_ThreadInfoArray >>
locals == << thread_loop, process_id, exceptionOccurred, exceptionDetails >>
history == << round, entryThreads, entryCeiling, spawnLog, spawnFailed, spawnThrow,
              waitLog, waitThrow, invoked, calls, requested, entryResidue >>

\* A ThreadInfoStruct the constructor has not filled in: only ThreadID is set.
UnsetSlot == [ UserData |-> "unset", NumberOfThreads |-> 0, ThreadFunction |-> "unset",
               ThreadExitCode |-> "unset" ]

\* MultiThreader::MultiThreader().  The requested thread count and the global
\* ceiling are set by the base class; any value in range is a possible start.
Init ==
  /\ m_SingleMethod = NULL
  /\ m_SingleData = NULL
  /\ m_NumberOfThreads \in ThreadCounts
  /\ m_ThreadInfoArray = [i \in Slots |-> UnsetSlot]
  /\ globalMaximumNumberOfThreads \in ThreadCounts
  /\ pc = "idle"
  /\ thread_loop = 0
  /\ process_id = [i \in Slots |-> ZeroHandle]
  /\ exceptionOccurred = FALSE
  /\ exceptionDetails = EmptyString
  /\ threadState = [i \in Slots |-> "none"]
  /\ result = "none"
  /\ raised = NoException
  /\ round = 0
  /\ entryThreads = 0
  /\ entryCeiling = 0
  /\ spawnLog = <<>>
  /\ spawnFailed = 0
  /\ waitLog = <<>>
  /\ spawnThrow = "none"
  /\ waitThrow = [i \in Spawnable |-> "none"]
  /\ invoked = [i \in Slots |-> "not_run"]
  /\ calls = [i \in Slots |-> 0]
  /\ entryResidue = FALSE
  /\ requested = m_NumberOfThreads
  /\ m_MultipleMethod = [i \in Slots |-> NULL]
  /\ m_MultipleData = [i \in Slots |-> NULL]
  /\ multipleRaised = FALSE

\* ------------------------------------------------------------ SetSingleMethod
SetSingleMethod(f, data) ==
  /\ pc = "idle"
  /\ UNCHANGED multiple
  /\ <<f, data>> # <<m_SingleMethod, m_SingleData>>
  /\ m_SingleMethod' = f
  /\ m_SingleData' = data
  /\ UNCHANGED << m_NumberOfThreads, m_ThreadInfoArray, globalMaximumNumberOfThreads,
                  pc, locals, threadState, result, raised, history >>

\* ---------------------------------------------------------- SetMultipleMethod
\* The indices a caller passes: the first and the last index of the arrays and
\* one that is outside every thread count.
MultipleIndices == {0, ITK_MAX_THREADS - 1, ITK_MAX_THREADS}

\* Variant: the index checked against the size of the arrays.
MultipleIndexRejected_ArraySize(index, n) == index >= ITK_MAX_THREADS

\* Line 85: if( index >= m_NumberOfThreads ).
MultipleIndexRejected(index, n) == index >= n

\* Lines 82-94: the error, or the two writes at the index.
SetMultipleMethod(index, f, data) ==
  /\ IF MultipleIndexRejected(index, m_NumberOfThreads)
       THEN /\ multipleRaised' = TRUE
            /\ UNCHANGED << m_MultipleMethod, m_MultipleData >>
       ELSE /\ m_MultipleMethod' = [m_MultipleMethod EXCEPT ![index] = f]
            /\ m_MultipleData' = [m_MultipleData EXCEPT ![index] = data]
            /\ multipleRaised' = FALSE
  /\ UNCHANGED << members, globalMaximumNumberOfThreads, pc, locals, threadState,
                  result, raised, history >>

\* ------------------------------------------- SetGlobalMaximumNumberOfThreads
\* Any thread may call it at any time, also while a round is in progress.
SetGlobalMaximumNumberOfThreads(n) ==
  /\ n # globalMaximumNumberOfThreads
  /\ UNCHANGED multiple
  /\ globalMaximumNumberOfThreads' = n
  /\ UNCHANGED << members, pc, locals, threadState, result, raised, history >>

\* ------------------------------------------------------- SingleMethodExecute
\* Variants of line 107: the ceiling taken as it is; no clamp at all.
ClampedThreadCount_Ceiling(ceiling, requested_) == ceiling
ClampedThreadCount_Unclamped(ceiling, requested_) == requested_

\* Line 107: the thread count used by the round, stored back into the member.
ClampedThreadCount(ceiling, requested_) == Min(ceiling, requested_)

\* What an earlier call can have left behind: the exit code of a slot that did
\* not succeed, or a call that ended by raising.
LeftBehind ==
  \/ \E i \in Slots : m_ThreadInfoArray[i].ThreadExitCode \notin {"unset", "SUCCESS"}
  \/ result \in {"failed", "ProcessAborted"}

\* Variant: the clamp of line 107 placed before the check of line 101.
ThreadCountAfterNoMethod_Clamped(ceiling, requested_) == Min(ceiling, requested_)

\* Lines 101-104: the throw comes before line 107, the member keeps its value.
ThreadCountAfterNoMethod(ceiling, requested_) == requested_

\* Variant: the flag kept across calls (a member instead of a local).
FlagAtEntry_Kept(left) == left

\* Line 123: bool exceptionOccurred = false, a fresh local of every call.
FlagAtEntry(left) == FALSE

\* Line 124: std::string exceptionDetails, empty at every call.
DetailsAtEntry(left) == EmptyString

\* Variant: the loops start at index 0.
FirstSpawned_Zero == 1 - 1

\* Lines 111, 127, 165, 196: for( thread_loop = 1; ... ), index 0 is left out.
FirstSpawned == 1

\* Variant: no initialisation loop, the table keeps what it held.
InitialProcessId_Stale(i, n, left) == left

\* Lines 111-114: process_id[1..N-1] = 0; the other entries of the local
\* array are not written.
InitialProcessId(i, n, left) ==
  IF FirstSpawned <= i /\ i < n THEN ZeroHandle ELSE left

\* Variant: the loop bound read from the global ceiling at every iteration.
AfterSpawnLoop_RereadCeiling(i, n) ==
  IF i < Min(n, globalMaximumNumberOfThreads) THEN "spawn" ELSE "slot0"

\* Lines 127, 135: the loop condition thread_loop < m_NumberOfThreads, with
\* next index i.
AfterSpawnLoop(i, n) == IF i < n THEN "spawn" ELSE "slot0"

\* Lines 96-124: the no-method check, the clamp, the process_id initialisation
\* and the two flags of the round.
ExecuteEnter ==
  /\ pc = "idle"
  /\ UNCHANGED multiple
  /\ round < MaxRounds
  /\ round' = round + 1
  /\ entryThreads' = m_NumberOfThreads
  /\ entryCeiling' = globalMaximumNumberOfThreads
  /\ spawnLog' = <<>>
  /\ spawnFailed' = 0
  /\ waitLog' = <<>>
  /\ spawnThrow' = "none"
  /\ waitThrow' = [i \in Spawnable |-> "none"]
  /\ invoked' = [i \in Slots |-> "not_run"]
  /\ calls' = [i \in Slots |-> 0]
  /\ entryResidue' = LeftBehind
  /\ UNCHANGED requested
  /\ IF m_SingleMethod = NULL
       THEN /\ result' = "no_single_method"
            /\ raised' = [text |-> "No single method set!", details |-> EmptyString]
            /\ thread_loop' = 0
            /\ m_NumberOfThreads' =
                 ThreadCountAfterNoMethod(globalMaximumNumberOfThreads, m_NumberOfThreads)
            /\ UNCHANGED << m_SingleMethod, m_SingleData, m_ThreadInfoArray,
                            globalMaximumNumberOfThreads, pc, process_id,
                            exceptionOccurred, exceptionDetails, threadState >>
       ELSE LET n == ClampedThreadCount(globalMaximumNumberOfThreads, m_NumberOfThreads)
            IN  /\ m_NumberOfThreads' = n
                /\ process_id' = [i \in Slots |-> InitialProcessId(i, n, process_id[i])]
                /\ exceptionOccurred' = FlagAtEntry(exceptionOccurred)
                /\ exceptionDetails' = DetailsAtEntry(exceptionDetails)
                /\ thread_loop' = FirstSpawned
                /\ pc' = AfterSpawnLoop(FirstSpawned, n)
                /\ result' = "running"
                /\ raised' = NoException
                /\ threadState' = [i \in Slots |->
                                     IF threadState[i] = "running" THEN "running" ELSE "none"]
                /\ UNCHANGED << m_SingleMethod, m_SingleData, m_ThreadInfoArray,
                                globalMaximumNumberOfThreads >>

\* Variant: the function pointer of the slot is not written.
ConfigureSpawnedSlot_NoFunction(info) ==
  [info EXCEPT !.UserData = m_SingleData,
               !.NumberOfThreads = m_NumberOfThreads]

\* Lines 129-131: the slot of a thread about to be spawned.
ConfigureSpawnedSlot(info) ==
  [info EXCEPT !.UserData = m_SingleData,
               !.NumberOfThreads = m_NumberOfThreads,
               !.ThreadFunction = m_SingleMethod]

\* Variant: the try block inside the loop, the loop goes on after a throw.
AfterSpawnThrow_Continue(i) ==
  [pc |-> IF i + 1 < m_NumberOfThreads THEN "spawn" ELSE "slot0", thread_loop |-> i + 1]

\* Variant: the handler goes straight to the wait loop.
AfterSpawnThrow_SkipSlot0(i) == [pc |-> "wait", thread_loop |-> FirstSpawned]

\* Lines 137-150: the spawn loop sits inside the try block, so a throw of
\* SpawnDispatchSingleMethodThread for index i leaves the loop.
AfterSpawnThrow(i) == [pc |-> "slot0", thread_loop |-> i]

\* Variant: the first message is kept, later ones are dropped.
CaughtDetails_FirstWins(kind, what, details) ==
  IF kind = "std_exception" /\ details = EmptyString THEN what ELSE details

\* Lines 140, 183, 212: exceptionDetails = e.what(); catch(...) leaves it alone.
CaughtDetails(kind, what, details) ==
  IF kind = "std_exception" THEN what ELSE details

\* SpawnDispatchSingleMethodThread starts a thread on the slot and returns its
\* handle, or throws when thread creation is refused.
SpawnReturns(i) ==
  /\ process_id' = [process_id EXCEPT ![i] = NewHandle(round, i)]
  /\ threadState' = [threadState EXCEPT ![i] = "running"]

\* Lines 127-150: one iteration of the spawn loop.
SpawnThread ==
  /\ pc = "spawn"
  /\ UNCHANGED multiple
  /\ thread_loop < m_NumberOfThreads
  /\ m_ThreadInfoArray' =
       [m_ThreadInfoArray EXCEPT ![thread_loop] = ConfigureSpawnedSlot(@)]
  /\ spawnLog' = Append(spawnLog, thread_loop)
  /\ \/ /\ SpawnReturns(thread_loop)
        /\ thread_loop' = thread_loop + 1
        /\ pc' = AfterSpawnLoop(thread_loop + 1, m_NumberOfThreads)
        /\ UNCHANGED << exceptionOccurred, exceptionDetails, spawnFailed, spawnThrow >>
     \/ \E kind \in ThrowKinds :
          /\ exceptionDetails' =
               CaughtDetails(kind, SpawnMessage(thread_loop), exceptionDetails)
          /\ exceptionOccurred' = TRUE
          /\ pc' = AfterSpawnThrow(thread_loop).pc
          /\ thread_loop' = AfterSpawnThrow(thread_loop).thread_loop
          /\ spawnFailed' = thread_loop
          /\ spawnThrow' = kind
          /\ UNCHANGED << process_id, threadState >>
  /\ UNCHANGED << m_SingleMethod, m_SingleData, m_NumberOfThreads,
                  globalMaximumNumberOfThreads, result, raised, round, entryThreads,
                  entryCeiling, waitLog, waitThrow, invoked, calls, requested, entryResidue >>

\* Lines 157-158: slot 0 gets the data and the count, not the function.
ConfigureSlot0(info) ==
  [info EXCEPT !.UserData = m_SingleData,
               !.NumberOfThreads = m_NumberOfThreads]

\* Variant: no ProcessAborted handler, the abort is treated like a return.
AfterSlot0_NoAbortHandler(outcome) == "wait"

\* Variant: no ProcessAborted handler, the abort leaves the call at once.
AfterSlot0_AbortEscapes(outcome) == IF outcome = "ProcessAborted" THEN "idle" ELSE "wait"

\* Lines 161-193: where the calling thread goes after its own invocation.
AfterSlot0(outcome) == IF outcome = "ProcessAborted" THEN "abort_wait" ELSE "wait"

\* Variant: the message of the calling thread's failure is not kept.
Slot0Details_Dropped(outcome, details) == details

\* Lines 180-193: the flags after the calling thread's own invocation.
Slot0Details(outcome, details) ==
  IF outcome \in ThrowKinds THEN CaughtDetails(outcome, UserMessage(0), details)
  ELSE details

\* Variant: a failure of the calling thread's invocation does not set the flag.
Slot0Occurred_Dropped(outcome, occurred) == occurred

\* Lines 182, 187-191: exceptionOccurred = true in both handlers.
Slot0Occurred(outcome, occurred) ==
  IF outcome \in ThrowKinds THEN TRUE ELSE occurred

\* Lines 155-193 without the loop of the abort handler: the calling thread
\* calls m_SingleMethod on slot 0 directly.
RunSlot0 ==
  /\ pc = "slot0"
  /\ UNCHANGED multiple
  /\ m_ThreadInfoArray' = [m_ThreadInfoArray EXCEPT ![0] = ConfigureSlot0(@)]
  /\ \E outcome \in FunctionOutcomes :
       /\ invoked' = [invoked EXCEPT ![0] = outcome]
       /\ calls' = [calls EXCEPT ![0] = @ + 1]
       /\ pc' = AfterSlot0(outcome)
       /\ exceptionDetails' = Slot0Details(outcome, exceptionDetails)
       /\ exceptionOccurred' = Slot0Occurred(outcome, exceptionOccurred)
  /\ thread_loop' = FirstSpawned
  /\ UNCHANGED << m_SingleMethod, m_SingleData, m_NumberOfThreads,
                  globalMaximumNumberOfThreads, process_id, threadState, result,
                  raised, round, entryThreads, entryCeiling, spawnLog, spawnFailed,
                  spawnThrow, waitLog, waitThrow, requested, entryResidue >>

\* The slot whose thread a handle refers to.
SlotOfHandle(h) == h % ITK_MAX_THREADS

\* SpawnWaitForSingleMethodThread blocks until the thread of the handle has
\* terminated; on the zero handle there is no thread to block on.
WaitCompletes(h) ==
  IF h = ZeroHandle THEN TRUE
  ELSE threadState[SlotOfHandle(h)] = "terminated"

\* Variant: the exit code of the slot is not looked at.
ExitCodeFlags_Ignored(code) == {FALSE}

\* Variant: only a user exception counts, an abort recorded in the slot passes.
ExitCodeFlags_AbortTolerated(code) ==
  IF code = "unset" THEN {TRUE, FALSE}
  ELSE IF code = "USER_EXCEPTION" THEN {TRUE} ELSE {FALSE}

\* Lines 203-207: a read of an exit code nobody has written can go either way.
ExitCodeFlags(code) ==
  IF code = "unset" THEN {TRUE, FALSE}
  ELSE IF code # "SUCCESS" THEN {TRUE} ELSE {FALSE}

\* Variant: the try block around the loop, a throw ends the wait loop.
AfterWaitThrow_LeaveLoop(i) == m_NumberOfThreads

\* Lines 209-218: the loop goes on with the next index after a throw.
AfterWaitThrow(i) == i + 1

\* Lines 196-219: one iteration of the wait loop.
WaitThread ==
  /\ pc = "wait"
  /\ UNCHANGED multiple
  /\ thread_loop < m_NumberOfThreads
  /\ WaitCompletes(process_id[thread_loop])
  /\ waitLog' = Append(waitLog, <<thread_loop, process_id[thread_loop]>>)
  /\ \/ /\ \E flag \in ExitCodeFlags(m_ThreadInfoArray[thread_loop].ThreadExitCode) :
             exceptionOccurred' = (exceptionOccurred \/ flag)
        /\ thread_loop' = thread_loop + 1
        /\ UNCHANGED << exceptionDetails, waitThrow >>
     \/ \E kind \in ThrowKinds :
          /\ exceptionDetails' =
               CaughtDetails(kind, WaitMessage(thread_loop), exceptionDetails)
          /\ exceptionOccurred' = TRUE
          /\ thread_loop' = AfterWaitThrow(thread_loop)
          /\ waitThrow' = [waitThrow EXCEPT ![thread_loop] = kind]
  /\ UNCHANGED << members, globalMaximumNumberOfThreads, pc, process_id, threadState,
                  result, raised, round, entryThreads, entryCeiling, spawnLog,
                  spawnFailed, spawnThrow, invoked, calls, requested, entryResidue >>

\* Lines 223-230: the description of the exception raised at the end.
AggregateDescription(details) ==
  [text |-> "Exception occurred during SingleMethodExecute", details |-> details]

\* Lines 221-232: the end of the call.
Finish ==
  /\ pc = "wait"
  /\ UNCHANGED multiple
  /\ thread_loop >= m_NumberOfThreads
  /\ pc' = "idle"
  /\ IF exceptionOccurred
       THEN /\ result' = "failed"
            /\ raised' = AggregateDescription(exceptionDetails)
       ELSE /\ result' = "returned"
            /\ raised' = NoException
  /\ UNCHANGED << members, globalMaximumNumberOfThreads, locals, threadState, history >>

\* Lines 165-176: one iteration of the loop in the ProcessAborted handler; a
\* throw of the wait is swallowed.
AbortWaitThread ==
  /\ pc = "abort_wait"
  /\ UNCHANGED multiple
  /\ thread_loop < m_NumberOfThreads
  /\ WaitCompletes(process_id[thread_loop])
  /\ waitLog' = Append(waitLog, <<thread_loop, process_id[thread_loop]>>)
  /\ \/ UNCHANGED waitThrow
     \/ waitThrow' = [waitThrow EXCEPT ![thread_loop] = "swallowed"]
  /\ thread_loop' = thread_loop + 1
  /\ UNCHANGED << members, globalMaximumNumberOfThreads, pc, process_id,
                  exceptionOccurred, exceptionDetails, threadState, result, raised,
                  round, entryThreads, entryCeiling, spawnLog, spawnFailed, spawnThrow,
                  invoked, calls, requested, entryResidue >>

\* Variant: no throw at the end of the handler, the call goes on with the
\* wait loop of lines 196-219.
AbortRethrow_FallThrough ==
  /\ pc = "abort_wait"
  /\ UNCHANGED multiple
  /\ thread_loop >= m_NumberOfThreads
  /\ pc' = "wait"
  /\ thread_loop' = FirstSpawned
  /\ UNCHANGED << members, globalMaximumNumberOfThreads, process_id, exceptionOccurred,
                  exceptionDetails, threadState, result, raised, history >>

\* Line 178: throw; after the loop.
AbortRethrow ==
  /\ pc = "abort_wait"
  /\ UNCHANGED multiple
  /\ thread_loop >= m_NumberOfThreads
  /\ pc' = "idle"
  /\ result' = "ProcessAborted"
  /\ raised' = [text |-> "ProcessAborted", details |-> EmptyString]
  /\ UNCHANGED << members, globalMaximumNumberOfThreads, locals, threadState, history >>

\* ---------------------------------------------------------- SingleMethodProxy
\* The exit code the supervisor wrapper records for an outcome of the function.
ExitCodeOf(outcome) ==
  CASE outcome = "return" -> "SUCCESS"
    [] outcome = "ProcessAborted" -> "ABORT_SIGNAL"
    [] OTHER -> "USER_EXCEPTION"

\* The thread of slot i runs the wrapper around the user function: nothing
\* escapes the thread, the outcome is recorded in the slot.
SingleMethodProxy(i) ==
  /\ threadState[i] = "running"
  /\ UNCHANGED multiple
  /\ \E outcome \in FunctionOutcomes :
       /\ invoked' = [invoked EXCEPT ![i] = outcome]
       /\ calls' = [calls EXCEPT ![i] = @ + 1]
       /\ m_ThreadInfoArray' =
            [m_ThreadInfoArray EXCEPT ![i].ThreadExitCode = ExitCodeOf(outcome)]
  /\ threadState' = [threadState EXCEPT ![i] = "terminated"]
  /\ UNCHANGED << m_SingleMethod, m_SingleData, m_NumberOfThreads,
                  globalMaximumNumberOfThreads, pc, locals, result, raised, round,
                  entryThreads, entryCeiling, spawnLog, spawnFailed, spawnThrow,
                  waitLog, waitThrow, requested, entryResidue >>

\* ------------------------------------------------------------- specification
Next ==
  \/ \E f \in Functions \cup {NULL}, data \in UserDatas : SetSingleMethod(f, data)
  \/ \E n \in ThreadCounts : SetGlobalMaximumNumberOfThreads(n)
  \/ ExecuteEnter
  \/ SpawnThread
  \/ RunSlot0
  \/ WaitThread
  \/ Finish
  \/ AbortWaitThread
  \/ AbortRethrow
  \/ \E i \in Slots : SingleMethodProxy(i)

Spec == Init /\ [][Next]_vars

\* A step of the thread that is inside SingleMethodExecute.
DispatcherStep ==
  \/ SpawnThread
  \/ RunSlot0
  \/ WaitThread
  \/ Finish
  \/ AbortWaitThread
  \/ AbortRethrow

\* The calls of the owner of the MultiThreader and the threads of its rounds,
\* under fair scheduling: the thread inside SingleMethodExecute keeps taking steps
\* (its own invocation of the function finishes, a Spawn or Wait call that can
\* return or fail does), and the function finishes in every spawned thread.
NextFair ==
  \/ /\ \/ \E f \in Functions \cup {NULL}, data \in UserDatas : SetSingleMethod(f, data)
        \/ ExecuteEnter
     /\ round' <= FairRounds
  \/ DispatcherStep
  \/ \E i \in Slots : SingleMethodProxy(i)

SpecFair ==
  /\ Init
  /\ [][NextFair]_vars
  /\ WF_vars(DispatcherStep)
  /\ \A i \in Spawnable : WF_vars(SingleMethodProxy(i))

\* The calling thread's program with calls of SetMultipleMethod at any moment.
NextMultiple ==
  \/ \E index \in MultipleIndices, f \in Functions, data \in UserDatas :
        SetMultipleMethod(index, f, data)
  \/ /\ \/ \E f \in Functions \cup {NULL}, data \in UserDatas : SetSingleMethod(f, data)
        \/ ExecuteEnter
        \/ SpawnThread
        \/ RunSlot0
        \/ WaitThread
        \/ Finish
        \/ AbortWaitThread
        \/ AbortRethrow
        \/ \E i \in Slots : SingleMethodProxy(i)
     /\ round' <= MultipleRounds

SpecMultiple == Init /\ [][NextMultiple]_vars

\* ------------------------------------------------------------------ notions
\* A call of SingleMethodExecute that got past the no-method check has ended.
RoundEnded == pc = "idle" /\ result \in {"returned", "failed", "ProcessAborted"}

\* The spawn loop of the current round is behind the dispatcher.
SpawnPhaseOver == pc \in {"slot0", "wait", "abort_wait"} \/ RoundEnded

\* Indices whose spawn returned a handle in the current round.
SpawnedIndices == {spawnLog[k] : k \in 1 .. Len(spawnLog)} \ {spawnFailed}

\* Indices handed to Wait in the current round.
WaitedIndices == {waitLog[k][1] : k \in 1 .. Len(waitLog)}

\* Handles handed to Wait in the current round.
WaitedHandles == {waitLog[k][2] : k \in 1 .. Len(waitLog)}

\* <<1, 2, ..., n>>
UpTo(n) == [k \in 1 .. n |-> k]

\* Wait has been called once for each index 1..N-1, in that order.
WaitedEveryIndex ==
  /\ Len(waitLog) = m_NumberOfThreads - 1
  /\ \A k \in 1 .. Len(waitLog) : waitLog[k][1] = k

\* Slots of the current round.
RoundSlots == 0 .. (m_NumberOfThreads - 1)

NoWaitThrew == \A i \in Spawnable : waitThrow[i] = "none"

\* ----------------------------------------------------------------------- C1
\* C1: whenever SingleMethodExecute has returned or raised (clean return,
\* aggregated failure, re-raised abort), every thread spawned in that round has
\* terminated and its handle has been passed to Wait; the aggregated failure
\* is raised only after Wait was called for every index up to N-1.
C1_AllSpawnedJoinedAtExit ==
  /\ (pc = "idle" /\ result # "none") =>
        \A i \in SpawnedIndices :
           /\ threadState[i] = "terminated"
           /\ NewHandle(round, i) \in WaitedHandles
  /\ (pc = "idle" /\ result = "failed") => WaitedEveryIndex

\* A round that ended in the aggregated failure with two threads spawned, one
\* of whose waits threw.
C1_Witness ==
  /\ pc = "idle"
  /\ result = "failed"
  /\ SpawnedIndices = {1, 2}
  /\ waitThrow[1] # "none"

\* ----------------------------------------------------------------------- C2
\* C2: when the slot-0 invocation raised ProcessAborted, the call ends by
\* re-raising ProcessAborted (never the aggregated failure), after Wait was
\* called for every index 1..N-1, whatever happened to the spawns, the waits
\* and the other slots.
C2_AbortDrainsThenRethrows ==
  /\ (pc = "idle" /\ invoked[0] = "ProcessAborted") =>
        /\ result = "ProcessAborted"
        /\ raised.text = "ProcessAborted"
        /\ WaitedEveryIndex
  /\ (invoked[0] = "ProcessAborted" /\ pc # "idle") => pc = "abort_wait"
  /\ result = "ProcessAborted" => invoked[0] = "ProcessAborted"

\* An abort of slot 0 in a round where the spawn of index 2 failed, slot 1
\* ended in a failure and a wait threw.
C2_Witness ==
  /\ pc = "idle"
  /\ result = "ProcessAborted"
  /\ spawnFailed = 2
  /\ invoked[1] = "std_exception"
  /\ waitThrow[2] = "swallowed"

\* ----------------------------------------------------------------------- C3
\* C3 as stated: once the spawn loop is over, a spawn has been attempted for
\* every index 1..N-1, also after a spawn that failed.
C3_SpawnAttemptedForEveryIndex ==
  SpawnPhaseOver => spawnLog = UpTo(m_NumberOfThreads - 1)

\* C3 amended: spawns are attempted in index order up to and including the
\* first index whose spawn fails; that failure is recorded as a fault of the
\* round (the call ends by raising) and no spawn is attempted for the indices
\* after it.  Without a spawn failure every index 1..N-1 is attempted.
C3_SpawnStopsAtFirstFailure ==
  /\ SpawnPhaseOver =>
       spawnLog = UpTo(IF spawnFailed # 0 THEN spawnFailed ELSE m_NumberOfThreads - 1)
  /\ (spawnFailed # 0 /\ pc \in {"slot0", "wait"}) => exceptionOccurred
  /\ (spawnFailed # 0 /\ RoundEnded) => result \in {"failed", "ProcessAborted"}

\* A round of three threads whose first spawn failed: index 2 was never tried.
C3_Witness ==
  /\ RoundEnded
  /\ m_NumberOfThreads = 3
  /\ spawnFailed = 1
  /\ spawnLog = <<1>>

\* ----------------------------------------------------------------------- C4
\* C4: a call of SingleMethodExecute with no function registered raises the
\* no-single-method error in its first step: nothing is spawned, waited for or
\* invoked, and the thread count, the slots, the handles and the threads are
\* what they were.
C4_NoMethodTouchesNothing ==
  [][ (pc = "idle" /\ m_SingleMethod = NULL /\ round' = round + 1) =>
        /\ pc' = "idle"
        /\ result' = "no_single_method"
        /\ raised'.text = "No single method set!"
        /\ spawnLog' = <<>>
        /\ waitLog' = <<>>
        /\ \A i \in Slots : invoked'[i] = "not_run"
        /\ UNCHANGED << m_NumberOfThreads, m_ThreadInfoArray, m_SingleMethod,
                        m_SingleData, process_id, threadState >> ]_vars

\* A call without a function on a dispatcher that asks for more threads than
\* the ceiling allows and whose slots were used by an earlier round.
C4_Witness ==
  /\ result = "no_single_method"
  /\ round = 2
  /\ m_NumberOfThreads > globalMaximumNumberOfThreads
  /\ m_ThreadInfoArray[1].ThreadExitCode = "USER_EXCEPTION"

\* ----------------------------------------------------------------------- C5
\* C5: in a round with requested count R and ceiling C read at entry, the
\* count used is N = min(R, C), never more than R, and when no spawn fails
\* exactly the indices 1..N-1 are spawned, each once.
C5_ClampedCountAndSpawns ==
  (result \in {"running", "returned", "failed", "ProcessAborted"}) =>
     /\ m_NumberOfThreads = Min(entryThreads, entryCeiling)
     /\ m_NumberOfThreads <= entryThreads
     /\ (SpawnPhaseOver /\ spawnFailed = 0) =>
           /\ spawnLog = UpTo(m_NumberOfThreads - 1)
           /\ Cardinality(SpawnedIndices) = m_NumberOfThreads - 1

\* A round that asked for three threads under a ceiling of two: one spawn.
C5_Witness ==
  /\ RoundEnded
  /\ entryThreads = 3
  /\ entryCeiling = 2
  /\ spawnFailed = 0
  /\ spawnLog = <<1>>

\* ----------------------------------------------------------------------- C6
\* A slot of the round whose function raised a std::exception.
FailedWithMessage(i) == i \in RoundSlots /\ invoked[i] = "std_exception"

EverySlotReturned == \A i \in RoundSlots : invoked[i] = "return"

\* C6: a call in which slot 0 did not raise ProcessAborted ends either by a
\* clean return or by the aggregated failure; it returns cleanly exactly when
\* the function returned in every slot 0..N-1 and no spawn and no wait threw;
\* either way Wait has been called for every index 1..N-1 before.
C6_CleanReturnIffAllSucceeded ==
  (RoundEnded /\ invoked[0] # "ProcessAborted") =>
     /\ result \in {"returned", "failed"}
     /\ (result = "returned") <=> (EverySlotReturned /\ spawnFailed = 0 /\ NoWaitThrew)
     /\ WaitedEveryIndex
     /\ (result = "failed") =>
           raised.text = "Exception occurred during SingleMethodExecute"
     /\ (result = "returned") => raised = NoException

\* The aggregated failure of a round in which only a spawned slot did not
\* succeed (its function raised ProcessAborted) and nothing else went wrong.
C6_Witness ==
  /\ RoundEnded
  /\ m_NumberOfThreads = 3
  /\ invoked[0] = "return"
  /\ invoked[1] = "return"
  /\ invoked[2] = "ProcessAborted"
  /\ spawnFailed = 0
  /\ NoWaitThrew
  /\ result = "failed"

\* ----------------------------------------------------------------------- C7
\* Exactly one slot's function failed with a message, the other slots
\* returned, and no spawn or wait threw.
OnlySlotFailed(i) ==
  /\ RoundEnded
  /\ FailedWithMessage(i)
  /\ \A j \in RoundSlots \ {i} : invoked[j] = "return"
  /\ spawnFailed = 0
  /\ NoWaitThrew

\* C7 as stated: whichever slot is the only one to fail with message m, the
\* call raises the aggregated failure carrying m.
C7_SingleFailureMessageCarried ==
  \A i \in Slots :
     OnlySlotFailed(i) => (result = "failed" /\ raised.details = UserMessage(i))

\* C7 amended: the call raises the aggregated failure; it carries m when the
\* failing slot is slot 0, and carries no message when it is a spawned slot.
C7_OnlySlot0MessageCarried ==
  \A i \in Slots :
     OnlySlotFailed(i) =>
        /\ result = "failed"
        /\ raised.details = (IF i = 0 THEN UserMessage(0) ELSE EmptyString)

\* The only failure of a round of three threads is in the spawned slot 2: the
\* aggregated failure carries no message.
C7_Witness ==
  /\ OnlySlotFailed(2)
  /\ result = "failed"
  /\ raised.details = EmptyString

\* ----------------------------------------------------------------------- C8
SeveralSlotsFailed ==
  /\ RoundEnded
  /\ result = "failed"
  /\ \E i, j \in Slots : i # j /\ FailedWithMessage(i) /\ FailedWithMessage(j)

\* Highest index of S (S not empty).
Highest(S) == CHOOSE i \in S : \A j \in S : j <= i

\* Indices at whose wait a failure with a message showed: the wait threw a
\* std::exception, or the slot's function had failed with a message.
ShownAtWait ==
  {i \in Spawnable : waitThrow[i] = "std_exception" \/ FailedWithMessage(i)}

\* The message of the failure observed last in the order spawn failure,
\* slot 0, waits 1..N-1, counting what the slots recorded.
LastObservedMessage ==
  IF ShownAtWait # {}
    THEN LET i == Highest(ShownAtWait)
         IN  IF waitThrow[i] = "std_exception" THEN WaitMessage(i) ELSE UserMessage(i)
    ELSE IF invoked[0] = "std_exception" THEN UserMessage(0)
    ELSE IF spawnThrow = "std_exception" THEN SpawnMessage(spawnFailed)
    ELSE EmptyString

\* Indices whose wait threw a std::exception.
ThrownAtWait == {i \in Spawnable : waitThrow[i] = "std_exception"}

\* The message of the last std::exception the dispatching thread caught
\* itself: from a spawn, from its own invocation of slot 0, from a wait.
LastCaughtMessage ==
  IF ThrownAtWait # {} THEN WaitMessage(Highest(ThrownAtWait))
  ELSE IF invoked[0] = "std_exception" THEN UserMessage(0)
  ELSE IF spawnThrow = "std_exception" THEN SpawnMessage(spawnFailed)
  ELSE EmptyString

\* C8 as stated: with two or more slots failing with distinct messages, the
\* aggregated failure carries the message of the failure observed last,
\* spawned slots included.
C8_LastObservedMessageWins ==
  SeveralSlotsFailed => raised.details = LastObservedMessage

\* C8 amended: it carries the message of the last std::exception caught by the
\* dispatching thread (spawn failure, then slot 0, then the waits in index
\* order; last writer wins); the messages of spawned slots never appear.
C8_LastCaughtMessageWins ==
  SeveralSlotsFailed => raised.details = LastCaughtMessage

\* Slots 0, 1 and 2 all failed with their messages, spawns and waits were
\* clean: the description carries the message of slot 0.
C8_Witness ==
  /\ SeveralSlotsFailed
  /\ FailedWithMessage(0)
  /\ FailedWithMessage(1)
  /\ FailedWithMessage(2)
  /\ NoWaitThrew
  /\ raised.details = UserMessage(0)

\* ----------------------------------------------------------------------- C9
\* C9: a round in which the function returns in every slot and no spawn or
\* wait throws returns cleanly, also when earlier calls on the same
\* dispatcher ended in failures and left non-success exit codes in the slots.
C9_CleanRoundIgnoresResidue ==
  (RoundEnded /\ round > 1 /\ EverySlotReturned /\ spawnFailed = 0 /\ NoWaitThrew)
     => result = "returned"

\* A second round of three threads returning cleanly after a first round that
\* had left a failure behind.
C9_Witness ==
  /\ RoundEnded
  /\ round = 2
  /\ entryResidue
  /\ m_NumberOfThreads = 3
  /\ EverySlotReturned
  /\ result = "returned"

\* ---------------------------------------------------------------------- C10
\* C10 as stated: the round leaves the requested count alone, so every round
\* uses N = min(count originally requested, ceiling at its entry).
C10_RoundUsesRequestedCount ==
  (result \in {"running", "returned", "failed", "ProcessAborted"}) =>
     m_NumberOfThreads = Min(requested, entryCeiling)

\* C10 amended: a round stores its clamped count in the dispatcher: entering a
\* round sets the thread count to min(count left by the rounds before, ceiling
\* now), nothing else of the round changes it, and it is never raised; a
\* later round under a higher ceiling keeps the lowered count.
C10_RoundLowersCountForGood ==
  [][ /\ (round' = round + 1 /\ m_SingleMethod # NULL) =>
           m_NumberOfThreads' = Min(m_NumberOfThreads, globalMaximumNumberOfThreads)
      /\ (round' = round) => m_NumberOfThreads' = m_NumberOfThreads
      /\ m_NumberOfThreads' <= m_NumberOfThreads ]_vars

\* A second round under ceiling 3 on a dispatcher that had asked for three
\* threads: it runs with the single thread the first round left.
C10_Witness ==
  /\ RoundEnded
  /\ round = 2
  /\ requested = 3
  /\ entryCeiling = 3
  /\ m_NumberOfThreads = 1
  /\ invoked[0] = "return"

\* ---------------------------------------------------------------------- C11
\* C11: slot 0 is never handed to the backend (no spawn, no wait, no thread
\* for index 0) and is run once per round by the calling thread; a round with
\* N = 1 invokes the function once, on the calling thread, and issues no
\* spawn and no wait.
C11_Slot0OnCallingThread ==
  /\ \A k \in 1 .. Len(spawnLog) : spawnLog[k] # 0
  /\ 0 \notin WaitedIndices
  /\ threadState[0] = "none"
  /\ calls[0] <= 1
  /\ RoundEnded => calls[0] = 1
  /\ (RoundEnded /\ m_NumberOfThreads = 1) =>
        /\ spawnLog = <<>>
        /\ waitLog = <<>>
        /\ \A i \in Slots : calls[i] = (IF i = 0 THEN 1 ELSE 0)

\* A round asked for three threads and clamped to one: the function ran once.
C11_Witness ==
  /\ RoundEnded
  /\ entryThreads = 3
  /\ m_NumberOfThreads = 1
  /\ calls[0] = 1
  /\ spawnLog = <<>>

\* ---------------------------------------------------------------------- C12
\* C12: the ceiling is read once, at entry of the round; whatever value
\* SetGlobalMaximumNumberOfThreads stores while the round is in progress, the
\* round spawns for, waits for and writes into its slots the count computed at
\* entry, and the member is not written again before the round has ended.
C12_CeilingReadOnceAtEntry ==
  /\ (result \in {"running", "returned", "failed", "ProcessAborted"}) =>
       LET n == ClampedThreadCount(entryCeiling, entryThreads)
       IN  /\ Len(spawnLog) <= n - 1
           /\ Len(waitLog) <= n - 1
           /\ \A k \in 1 .. Len(spawnLog) :
                /\ spawnLog[k] < n
                /\ m_ThreadInfoArray[spawnLog[k]].NumberOfThreads = n
           /\ invoked[0] # "not_run" => m_ThreadInfoArray[0].NumberOfThreads = n
           /\ RoundEnded =>
                /\ Len(waitLog) = n - 1
                /\ spawnFailed = 0 => Len(spawnLog) = n - 1
  /\ pc # "idle" => m_NumberOfThreads = ClampedThreadCount(entryCeiling, entryThreads)

\* The ceiling was three at entry and is one while the dispatcher is in the
\* wait loop of a round of three threads: two spawns and two waits were made.
C12_Witness ==
  /\ pc = "wait"
  /\ entryCeiling = 3
  /\ globalMaximumNumberOfThreads = 1
  /\ m_NumberOfThreads = 3
  /\ Len(spawnLog) = 2
  /\ Len(waitLog) = 2
  /\ m_ThreadInfoArray[2].NumberOfThreads = 3

\* ---------------------------------------------------------------------- C13
\* What the dispatcher writes into a slot: data, thread count, function.
Configuration(info) == << info.UserData, info.NumberOfThreads, info.ThreadFunction >>

\* The configuration of the round in progress.
RoundConfiguration == << m_SingleData, m_NumberOfThreads, m_SingleMethod >>

\* C13 as stated: once a spawn has been issued in a round, every slot 0..N-1
\* of the round holds the registered function, the user data and N.
C13_AllSlotsConfiguredBeforeFirstSpawn ==
  (result = "running" /\ spawnLog # <<>>) =>
     \A i \in RoundSlots : Configuration(m_ThreadInfoArray[i]) = RoundConfiguration

\* C13 amended: slot i >= 1 is configured with the function, the data and N
\* immediately before its own spawn, so the slot of a running thread is fully
\* configured and is not written by the dispatcher while that thread runs;
\* slots of higher index are written while earlier threads already run; slot 0
\* receives the data and N only after the spawn loop, and its function field is
\* never written.
C13_SlotConfiguredBeforeItsOwnSpawn ==
  /\ [](\A i \in Spawnable :
          threadState[i] = "running" =>
             Configuration(m_ThreadInfoArray[i]) = RoundConfiguration)
  /\ [](m_ThreadInfoArray[0].ThreadFunction = "unset")
  /\ [][ /\ \A i \in Spawnable :
              threadState[i] = "running" =>
                 Configuration(m_ThreadInfoArray'[i]) = Configuration(m_ThreadInfoArray[i])
         /\ Configuration(m_ThreadInfoArray'[0]) # Configuration(m_ThreadInfoArray[0]) =>
              /\ pc = "slot0"
              /\ m_ThreadInfoArray'[0].UserData = m_SingleData
              /\ m_ThreadInfoArray'[0].NumberOfThreads = m_NumberOfThreads ]_vars

\* First round of three threads: the threads of slots 1 and 2 both run, slot 2
\* was configured after thread 1 had been started, slot 0 is still untouched.
C13_Witness ==
  /\ round = 1
  /\ pc = "slot0"
  /\ threadState[1] = "running"
  /\ threadState[2] = "running"
  /\ Configuration(m_ThreadInfoArray[2]) = RoundConfiguration
  /\ m_ThreadInfoArray[0] = UnsetSlot

\* ---------------------------------------------------------------------- C14
\* C14: within a round, spawns are issued for 1, 2, ... in ascending order,
\* the calling thread invokes the function on slot 0 only when no further
\* spawn follows, no wait is issued before that invocation is over, and waits
\* are issued for 1, 2, ... in ascending order.
C14_DispatcherEventsOrdered ==
  /\ [](/\ spawnLog = UpTo(Len(spawnLog))
        /\ \A k \in 1 .. Len(waitLog) : waitLog[k][1] = k
        /\ invoked[0] = "not_run" => waitLog = <<>>
        /\ pc = "spawn" => invoked[0] = "not_run")
  /\ [][ /\ (spawnLog' # spawnLog /\ spawnLog' # <<>>) =>
              /\ invoked[0] = "not_run"
              /\ invoked'[0] = "not_run"
         /\ (invoked[0] = "not_run" /\ invoked'[0] # "not_run") =>
              /\ pc = "slot0"
              /\ pc' # "spawn"
              /\ waitLog = <<>>
         /\ (waitLog' # waitLog /\ waitLog' # <<>>) => invoked[0] # "not_run" ]_vars

\* A finished round of three threads: two spawns, the calling thread's
\* invocation (which failed), then two waits.
C14_Witness ==
  /\ RoundEnded
  /\ spawnLog = <<1, 2>>
  /\ invoked[0] = "std_exception"
  /\ Len(waitLog) = 2
  /\ waitLog[1][1] = 1
  /\ waitLog[2][1] = 2

\* ---------------------------------------------------------------------- C15
\* How many times handle h was passed to Wait in the current round.
WaitsOn(h) == Cardinality({k \in 1 .. Len(waitLog) : waitLog[k][2] = h})

\* C15: on every path the handle returned by a spawn of the round is passed to
\* Wait at most once while the round runs and exactly once by the time it has
\* ended; a round that ends by re-raising the abort has made one pass over the
\* indices, not two.
C15_WaitOncePerHandle ==
  /\ \A i \in SpawnedIndices : WaitsOn(NewHandle(round, i)) <= 1
  /\ RoundEnded => \A i \in SpawnedIndices : WaitsOn(NewHandle(round, i)) = 1
  /\ (result \in {"running", "returned", "failed", "ProcessAborted"}) =>
        Len(waitLog) <= m_NumberOfThreads - 1

\* A round that ended by re-raising the abort of slot 0 after two spawns: each
\* of the two handles was waited for once.
C15_Witness ==
  /\ RoundEnded
  /\ result = "ProcessAborted"
  /\ SpawnedIndices = {1, 2}
  /\ WaitsOn(NewHandle(round, 1)) = 1
  /\ WaitsOn(NewHandle(round, 2)) = 1
  /\ Len(waitLog) = 2

\* ---------------------------------------------------------------------- C16
\* The function raised ProcessAborted in the thread of a spawned slot.
AbortedInSpawnedSlot == \E i \in SpawnedIndices : invoked[i] = "ProcessAborted"

\* What the claim says of an abort in a spawned slot: it is recorded in the
\* slot as a non-success outcome, it leaves the dispatcher and the other
\* threads alone, every spawned slot runs to completion and is waited for.
AbortInSpawnedSlotContained ==
  /\ [](\A i \in SpawnedIndices :
          invoked[i] = "ProcessAborted" =>
             /\ m_ThreadInfoArray[i].ThreadExitCode = "ABORT_SIGNAL"
             /\ threadState[i] = "terminated")
  /\ []((RoundEnded /\ AbortedInSpawnedSlot) =>
          \A j \in SpawnedIndices :
             /\ invoked[j] # "not_run"
             /\ calls[j] = 1
             /\ threadState[j] = "terminated"
             /\ j \in WaitedIndices)
  /\ [][ \A i \in Spawnable :
           (invoked[i] # "ProcessAborted" /\ invoked'[i] = "ProcessAborted") =>
              /\ pc' = pc
              /\ UNCHANGED << locals, result, raised >>
              /\ \A j \in Slots \ {i} :
                   /\ threadState'[j] = threadState[j]
                   /\ m_ThreadInfoArray'[j] = m_ThreadInfoArray[j] ]_vars

\* C16 as stated: whenever a spawned slot raised the abort condition the round
\* ends with the generic aggregated failure and not with a re-raised abort,
\* whatever slot 0 did.
C16_SpawnedAbortAlwaysAggregated ==
  (RoundEnded /\ AbortedInSpawnedSlot) =>
     /\ result = "failed"
     /\ raised.text = "Exception occurred during SingleMethodExecute"

\* C16 amended: the abort of a spawned slot is contained as above, and the
\* round ends with the generic aggregated failure unless the calling thread's
\* own invocation on slot 0 raised ProcessAborted too, in which case the round
\* ends by re-raising that abort.
C16_SpawnedAbortAggregatedUnlessSlot0Aborts ==
  /\ AbortInSpawnedSlotContained
  /\ []((RoundEnded /\ AbortedInSpawnedSlot) =>
          IF invoked[0] = "ProcessAborted"
            THEN result = "ProcessAborted"
            ELSE /\ result = "failed"
                 /\ raised.text = "Exception occurred during SingleMethodExecute")

\* The function aborted in the thread of slot 1 and returned everywhere else:
\* slot 2 ran to completion, both were waited for, the round raised the
\* aggregated failure without a message.
C16_Witness ==
  /\ RoundEnded
  /\ invoked[0] = "return"
  /\ invoked[1] = "ProcessAborted"
  /\ invoked[2] = "return"
  /\ m_ThreadInfoArray[1].ThreadExitCode = "ABORT_SIGNAL"
  /\ WaitedIndices = {1, 2}
  /\ NoWaitThrew
  /\ result = "failed"
  /\ raised.details = EmptyString

\* ---------------------------------------------------------------------- C17
\* C17 as stated: after a round, the outcome recorded in slot 0 is success when
\* the function returned on the calling thread and user-exception when it
\* raised an ordinary failure.
C17_Slot0OutcomeRecordedInSlot ==
  RoundEnded =>
     /\ invoked[0] = "return" => m_ThreadInfoArray[0].ThreadExitCode = "SUCCESS"
     /\ invoked[0] \in ThrowKinds => m_ThreadInfoArray[0].ThreadExitCode = "USER_EXCEPTION"

\* C17 amended: the calling thread calls the registered function on slot 0
\* directly, not through the wrapper: no outcome is ever recorded in slot 0.
\* What slot 0 did shows only in how the call ends: an ordinary failure makes
\* the call raise the aggregated failure, with the message of that failure
\* unless a wait that threw later replaced it; an abort makes it re-raise the
\* abort; a clean return of the call implies that slot 0 returned.
C17_Slot0OutcomeOnlyInCallResult ==
  /\ m_ThreadInfoArray[0].ThreadExitCode = "unset"
  /\ threadState[0] = "none"
  /\ RoundEnded =>
       /\ invoked[0] \in ThrowKinds => result = "failed"
       /\ (invoked[0] = "std_exception" /\ \A i \in Spawnable : waitThrow[i] # "std_exception")
             => raised.details = UserMessage(0)
       /\ invoked[0] = "ProcessAborted" <=> result = "ProcessAborted"
       /\ result = "returned" => invoked[0] = "return"

\* A round in which only the calling thread's invocation failed: the call
\* raised the aggregated failure with its message, slot 0 holds the data and
\* the count of the round and no outcome.
C17_Witness ==
  /\ RoundEnded
  /\ m_NumberOfThreads = 2
  /\ invoked[0] = "std_exception"
  /\ invoked[1] = "return"
  /\ result = "failed"
  /\ raised.details = UserMessage(0)
  /\ m_ThreadInfoArray[0].UserData = m_SingleData
  /\ m_ThreadInfoArray[0].NumberOfThreads = 2
  /\ m_ThreadInfoArray[0].ThreadExitCode = "unset"

\* ---------------------------------------------------------------------- C18
\* A step that is a call of SetMultipleMethod with a visible effect.
MultipleStorageTouched == multiple' # multiple

\* C18: a call of SetMultipleMethod leaves the registered single function, its
\* data, the thread count, the slots and the round in progress as they are; it
\* either raises its error and writes nothing, or writes the function and the
\* data at one index, which is below the current thread count.  Nothing else
\* writes that storage.
C18_SetMultipleMethodFrame ==
  [][ MultipleStorageTouched =>
        /\ UNCHANGED << members, globalMaximumNumberOfThreads, pc, locals,
                        threadState, result, raised, history >>
        /\ IF multipleRaised'
             THEN UNCHANGED << m_MultipleMethod, m_MultipleData >>
             ELSE \E index \in Slots, f \in Functions, data \in UserDatas :
                    /\ index < m_NumberOfThreads
                    /\ m_MultipleMethod' = [m_MultipleMethod EXCEPT ![index] = f]
                    /\ m_MultipleData' = [m_MultipleData EXCEPT ![index] = data] ]_vars

\* In the wait loop of a round whose count was lowered to two: the last index
\* of the arrays had been set while the count still allowed it, and the latest
\* call was refused.
C18_Witness ==
  /\ pc = "wait"
  /\ entryThreads = 3
  /\ m_NumberOfThreads = 2
  /\ m_MultipleMethod[2] # NULL
  /\ m_MultipleData[2] # NULL
  /\ m_MultipleMethod[0] = NULL
  /\ multipleRaised

\* ---------------------------------------------------------------------- C19
\* The handle the round holds for index i: the one its spawn returned, or the
\* zero written before the spawn loop.
HandleOfRound(i) == IF i \in SpawnedIndices THEN NewHandle(round, i) ELSE ZeroHandle

\* C19: a round in which a spawn failed goes on: the calling thread still
\* invokes the function once on slot 0, Wait is still called for every index
\* 1..N-1, with the handle of this round's spawn or, where no spawn returned
\* one, the zero handle (never a handle of an earlier round), and the call
\* raises only after all that; it does not return cleanly.
C19_SpawnFailureDoesNotEndRound ==
  spawnFailed # 0 =>
     /\ SpawnPhaseOver
     /\ pc # "idle" => result = "running"
     /\ \A i \in 1 .. (m_NumberOfThreads - 1) : process_id[i] = HandleOfRound(i)
     /\ \A k \in 1 .. Len(waitLog) : waitLog[k] = << k, HandleOfRound(k) >>
     /\ invoked[0] = "not_run" => pc = "slot0"
     /\ RoundEnded =>
          /\ result \in {"failed", "ProcessAborted"}
          /\ calls[0] = 1
          /\ WaitedEveryIndex

\* The second round of a three-thread dispatcher in which the first spawn
\* failed: the function ran on slot 0, Wait was called with the zero handle for
\* both indices, then the failure was raised.
C19_Witness ==
  /\ round = 2
  /\ RoundEnded
  /\ m_NumberOfThreads = 3
  /\ spawnFailed = 1
  /\ calls[0] = 1
  /\ waitLog = << <<1, ZeroHandle>>, <<2, ZeroHandle>> >>
  /\ result = "failed"

\* ---------------------------------------------------------------------- C20
\* The dispatcher waits in SpawnWaitForSingleMethodThread for a thread of this
\* round that is still running.
BlockedInWait ==
  /\ pc \in {"wait", "abort_wait"}
  /\ thread_loop < m_NumberOfThreads
  /\ process_id[thread_loop] = NewHandle(round, thread_loop)
  /\ threadState[thread_loop] = "running"

\* C20: under fair scheduling every call of SingleMethodExecute that has
\* started ends, by a clean return, the aggregated failure or the re-raised
\* abort; while it runs the dispatcher can always take its next step unless it
\* is waiting for a running thread; and a running thread stops only by the
\* function having finished in it, never by a step of the dispatcher.
C20_EveryCallTerminates ==
  /\ (result = "running") ~> RoundEnded
  /\ []((pc # "idle" /\ ~ ENABLED DispatcherStep) => BlockedInWait)
  /\ [][ \A i \in Slots :
           (threadState[i] = "running" /\ threadState'[i] # "running") =>
              /\ threadState'[i] = "terminated"
              /\ calls'[i] = calls[i] + 1
              /\ pc' = pc ]_vars

\* A call that had to wait for the running threads of slots 1 and 2 has ended.
C20_Witness ==
  /\ RoundEnded
  /\ SpawnedIndices = {1, 2}
  /\ Len(waitLog) = 2
  /\ threadState[1] = "terminated"
  /\ threadState[2] = "terminated"
  /\ result = "returned"

====
